---- MODULE Spec2Model ----
(***************************************************************************)
(* Furniture manufacturing allocation (src/task4.py).                      *)
(*                                                                         *)
(* optimize_manufacturing_resources builds a two-variable integer program, *)
(* hands it to the solver (prob.solve(), an external capability), and      *)
(* derives usage, utilization, binding constraints and shadow prices from  *)
(* what the solver left in the problem.  The module-level script then      *)
(* prints the returned value and calls visualize_results on it.            *)
(*                                                                         *)
(* Numbers.  The solver leaves floats in the variables.  A float value is  *)
(* modelled in fixed point: the integer q stands for q / Scale.  For an    *)
(* integer variable the solver may leave a value that is off the integer   *)
(* by its integrality tolerance; one fixed-point unit stands for that      *)
(* tolerance.  int() is truncation.  A utilization percentage is the exact *)
(* rational num / den.                                                     *)
(***************************************************************************)
EXTENDS Integers, Sequences, FiniteSets, TLC

VARIABLES pc, status, varValue, pi, results, stdout, uUsage, uLimit, uOut

vars == <<pc, status, varValue, pi, results, stdout, uUsage, uLimit, uOut>>

\* Resolution of the fixed-point model of the solver's floats.
Scale == 4

\* How far around 0 and around the limit the sampled usages of UtilSpec go.
MaxSlack == 1

\* None / a value, for what Python holds as None or a number.
None == {}
Some(x) == {x}
Abs(x) == IF x < 0 THEN -x ELSE x

(***************************************************************************)
(* The parameters (lines 20-43).                                           *)
(***************************************************************************)
table_data ==
    [labor_hours |-> 8, wood |-> 30, machine_time |-> 4, profit |-> 220]

chair_data ==
    [labor_hours |-> 5, wood |-> 10, machine_time |-> 2, profit |-> 80]

available_resources ==
    [labor_hours |-> 400, wood |-> 800, machine_time |-> 150]

min_tables == 10

min_chairs == 20

\* The keys of available_resources, in the dict's insertion order.
ResourceOrder == <<"labor_hours", "wood", "machine_time">>

Resources == {ResourceOrder[i] : i \in 1 .. Len(ResourceOrder)}

(***************************************************************************)
(* The problem as built (lines 12-56): objective and named constraints.    *)
(***************************************************************************)
Objective(t, c) == table_data.profit * t + chair_data.profit * c

ResourceConstraint(n, r) ==
    [name |-> n, resource |-> Some(r), Tables |-> table_data[r],
     Chairs |-> chair_data[r], sense |-> "<=", rhs |-> available_resources[r]]

ProbConstraints ==
    << ResourceConstraint("Labor_Constraint", "labor_hours"),
       ResourceConstraint("Wood_Constraint", "wood"),
       ResourceConstraint("Machine_Time_Constraint", "machine_time"),
       [name |-> "Minimum_Tables", resource |-> None, Tables |-> 1,
        Chairs |-> 0, sense |-> ">=", rhs |-> min_tables],
       [name |-> "Minimum_Chairs", resource |-> None, Tables |-> 0,
        Chairs |-> 1, sense |-> ">=", rhs |-> min_chairs] >>

ConstraintNames == {ProbConstraints[i].name : i \in 1 .. Len(ProbConstraints)}

Satisfies(con, t, c) ==
    LET lhs == con.Tables * t + con.Chairs * c
    IN  IF con.sense = "<=" THEN lhs <= con.rhs ELSE lhs >= con.rhs

Feasible(t, c) ==
    \A i \in 1 .. Len(ProbConstraints) : Satisfies(ProbConstraints[i], t, c)

\* Every integer assignment the resource constraints leave room for
\* (lowBound = 0, cat = 'Integer', lines 15-16).
VarRange(per_unit) ==
    LET caps == {available_resources[r] \div per_unit[r] : r \in Resources}
    IN  0 .. (CHOOSE m \in caps : \A k \in caps : m <= k)

FeasiblePoints ==
    {p \in VarRange(table_data) \X VarRange(chair_data) : Feasible(p[1], p[2])}

\* LpMaximize (line 12): the largest objective a feasible assignment reaches
BestObjective ==
    LET reached == {Objective(p[1], p[2]) : p \in FeasiblePoints}
    IN  CHOOSE m \in reached : \A k \in reached : k <= m

IsTrueOptimum(t, c) ==
    /\ <<t, c>> \in FeasiblePoints
    /\ Objective(t, c) = BestObjective

(***************************************************************************)
(* The solver (line 59), as the code relies on it.                         *)
(***************************************************************************)
LpStatus == {"Not Solved", "Optimal", "Infeasible", "Unbounded", "Undefined"}

\* The solver's integrality tolerance, in fixed-point units.
Offsets == {-1, 0, 1}

DualValues == {None, Some(0), Some(1)}

NoDuals == [n \in ConstraintNames |-> None]

\* Status Optimal comes with an optimum of the integer program, each value
\* within the tolerance of its integer.  Which duals come with it is the
\* backend's business.
OptimalPoints == {p \in FeasiblePoints : IsTrueOptimum(p[1], p[2])}

SolverValues ==
    {[Tables |-> p[1] * Scale + dt, Chairs |-> p[2] * Scale + dc] :
        p \in OptimalPoints, dt \in Offsets, dc \in Offsets}

(***************************************************************************)
(* Extraction (lines 61-107).                                              *)
(***************************************************************************)
NoSolutionMessage == "No optimal solution found."

\* the test of line 62 written against one failure status only
SolveFailed_Infeasible(st) == st = "Infeasible"

\* line 62
SolveFailed(st) == st # "Optimal"

\* int(x) on a float: truncation toward zero (lines 66-67)
int(q) == IF q >= 0 THEN q \div Scale ELSE -((-q) \div Scale)

\* pulp.value(prob.objective): the objective at the variables' float values,
\* in fixed-point units (line 68)
ObjectiveValue(v) == Objective(v.Tables, v.Chairs)

\* lines 71-73 with the chairs weighed by the table's requirements
ResourceUsage_TableOnly(t, c) ==
    [r \in Resources |-> table_data[r] * t + table_data[r] * c]

\* lines 71-73
ResourceUsage(t, c) ==
    [r \in Resources |-> table_data[r] * t + chair_data[r] * c]

\* (used / available) * 100 for one resource (lines 77-79)
DivisionByZero(limit) == limit = 0

UtilizationPct(used, limit) == [num |-> used * 100, den |-> limit]

\* abs(utilized_pct - 100) < 0.01 (line 85), on the exact rational
EpsDen == 100

\* the test of line 85 with <= for <
IsBinding_Inclusive(pct) ==
    Abs(pct.num - 100 * pct.den) * EpsDen <= pct.den

IsBinding(pct) == Abs(pct.num - 100 * pct.den) * EpsDen < pct.den

\* lines 83-86: the resources in dict order, those that pass the test appended
RECURSIVE BindingFrom(_, _)
BindingFrom(util, i) ==
    IF i > Len(ResourceOrder) THEN << >>
    ELSE LET r == ResourceOrder[i]
         IN  (IF IsBinding(util[r]) THEN <<r>> ELSE << >>)
                 \o BindingFrom(util, i + 1)

BindingConstraints(util) == BindingFrom(util, 1)

\* lines 89-91 with a missing dual reported as 0
ShadowPrices_ZeroForNone(duals) ==
    [n \in ConstraintNames |-> IF duals[n] = None THEN Some(0) ELSE duals[n]]

\* lines 89-91
ShadowPrices(duals) == [n \in ConstraintNames |-> duals[n]]

\* line 63
FailureValue(st) == [kind |-> "failure", message |-> NoSolutionMessage]

\* lines 75-86 on given usages and limits: the dict literal raises
\* ZeroDivisionError when a limit is 0
UtilizationStep(used, limit) ==
    IF \E r \in Resources : DivisionByZero(limit[r])
    THEN [error |-> "ZeroDivisionError"]
    ELSE LET util == [r \in Resources |-> UtilizationPct(used[r], limit[r])]
         IN  [error |-> "none", resource_utilization |-> util,
              binding_constraints |-> BindingConstraints(util)]

\* lines 65-107
BuildResults(v, duals) ==
    LET optimal_tables == int(v.Tables)
        optimal_chairs == int(v.Chairs)
        used == ResourceUsage(optimal_tables, optimal_chairs)
        step == UtilizationStep(used, available_resources)
    IN  IF step.error # "none"
        THEN [kind |-> step.error]
        ELSE [kind |-> "results",
              optimal_production |->
                  [tables |-> optimal_tables, chairs |-> optimal_chairs],
              optimal_profit |-> ObjectiveValue(v),
              resource_usage |-> used,
              resource_utilization |-> step.resource_utilization,
              binding_constraints |-> step.binding_constraints,
              shadow_prices |-> ShadowPrices(duals)]

\* lines 61-107: what optimize_manufacturing_resources returns
ReturnValue(st, v, duals) ==
    IF SolveFailed(st) THEN FailureValue(st) ELSE BuildResults(v, duals)

(***************************************************************************)
(* The script (lines 138-156).                                             *)
(***************************************************************************)
\* results['...'] on what was returned: a str cannot be indexed by a key
Subscriptable(res) == res.kind = "results"

\* f"{x:.2f}": the nearest hundredth of num / den, in hundredths
Fmt2(num, den) == (2 * 100 * num + den) \div (2 * den)

\* resource.replace('_', ' ').title()
Title(r) ==
    CASE r = "labor_hours" -> "Labor Hours"
      [] r = "wood" -> "Wood"
      [] r = "machine_time" -> "Machine Time"

\* lines 142-153
Printed(res) ==
    [production |-> res.optimal_production,
     profit |-> Fmt2(res.optimal_profit, Scale),
     usage |-> [r \in Resources |-> Fmt2(res.resource_usage[r], 1)],
     utilization |->
        [r \in Resources |-> Fmt2(res.resource_utilization[r].num,
                                  res.resource_utilization[r].den)],
     binding |-> [i \in 1 .. Len(res.binding_constraints) |->
                     Title(res.binding_constraints[i])]]

NothingPrinted == [production |-> None]

(***************************************************************************)
(* The run.                                                                *)
(***************************************************************************)
Idle == [error |-> "idle"]

Init ==
    /\ pc = "Built"
    /\ status = "Not Solved"
    /\ varValue = [Tables |-> 0, Chairs |-> 0]
    /\ pi = NoDuals
    /\ results = [kind |-> "unset"]
    /\ stdout = NothingPrinted
    /\ uUsage = [r \in Resources |-> 0]
    /\ uLimit = available_resources
    /\ uOut = Idle

\* line 59: prob.solve()
Solve ==
    /\ pc = "Built"
    /\ \E st \in LpStatus :
        /\ status' = st
        /\ IF st = "Optimal"
           THEN /\ varValue' \in SolverValues
                /\ pi' \in [ConstraintNames -> DualValues]
           ELSE UNCHANGED <<varValue, pi>>
    /\ pc' = "Solved"
    /\ UNCHANGED <<results, stdout, uUsage, uLimit, uOut>>

\* lines 61-107 and the assignment of line 139
Extract ==
    /\ pc = "Solved"
    /\ results' = ReturnValue(status, varValue, pi)
    /\ pc' = IF results'.kind = "results" THEN "Extracted"
             ELSE IF results'.kind = "failure" THEN "Rejected"
             ELSE results'.kind
    /\ UNCHANGED <<status, varValue, pi, stdout, uUsage, uLimit, uOut>>

\* lines 142-153; line 143 is the first read of a field
PrintResults ==
    /\ pc \in {"Extracted", "Rejected"}
    /\ IF Subscriptable(results)
       THEN /\ stdout' = Printed(results)
            /\ pc' = "Printed"
       ELSE /\ pc' = "TypeError"
            /\ UNCHANGED stdout
    /\ UNCHANGED <<status, varValue, pi, results, uUsage, uLimit, uOut>>

\* line 156, lines 109-136
Visualize ==
    /\ pc = "Printed"
    /\ pc' = IF Subscriptable(results) THEN "Done" ELSE "TypeError"
    /\ UNCHANGED <<status, varValue, pi, results, stdout, uUsage, uLimit, uOut>>

Next == Solve \/ Extract \/ PrintResults \/ Visualize

Spec == Init /\ [][Next]_vars

(***************************************************************************)
(* The utilization step (lines 75-86) as a function of the usages and the  *)
(* limits it is given, on sampled inputs: limits 0, the three of the       *)
(* program, and the limit at which one unit of usage is 0.01 percentage    *)
(* points; usages around 0 and around the limit.                           *)
(***************************************************************************)
LimitSamples ==
    {0, 100 * EpsDen} \cup {available_resources[r] : r \in Resources}

UsageSamples(limit) ==
    {u \in (0 .. MaxSlack) \cup ((limit - MaxSlack) .. (limit + MaxSlack)) :
        u >= 0}

UtilInit ==
    /\ pc = "Built"
    /\ status = "Not Solved"
    /\ varValue = [Tables |-> 0, Chairs |-> 0]
    /\ pi = NoDuals
    /\ results = [kind |-> "unset"]
    /\ stdout = NothingPrinted
    /\ uLimit \in [Resources -> LimitSamples]
    /\ uUsage \in [Resources -> UNION {UsageSamples(l) : l \in LimitSamples}]
    /\ \A r \in Resources : uUsage[r] \in UsageSamples(uLimit[r])
    /\ uOut = Idle

UtilApply ==
    /\ uOut = Idle
    /\ uOut' = UtilizationStep(uUsage, uLimit)
    /\ UNCHANGED <<pc, status, varValue, pi, results, stdout, uUsage, uLimit>>

UtilNext == UtilApply

UtilSpec == UtilInit /\ [][UtilNext]_vars

(***************************************************************************)
(* Properties.                                                             *)
(***************************************************************************)
Returned == pc \notin {"Built", "Solved"}

HasResult == results.kind = "results"

ResultFields ==
    {"optimal_production", "optimal_profit", "resource_usage",
     "resource_utilization", "binding_constraints", "shadow_prices"}

\* The solver left exactly the point <<t, c>>.
SolverAt(t, c) ==
    /\ status = "Optimal"
    /\ varValue = [Tables |-> t * Scale, Chairs |-> c * Scale]

C2_FailureOnly ==
    (Returned /\ status # "Optimal") =>
        /\ results = [kind |-> "failure",
                      message |-> "No optimal solution found."]
        /\ DOMAIN results \cap ResultFields = {}

C2_Witness ==
    /\ pc = "Rejected"
    /\ status = "Infeasible"
    /\ results.kind = "failure"

\* C3: the failure value carries the status: the value returned for the
\* status at hand is not the value returned for any other failing status.
C3_FailureCarriesStatus ==
    pc = "Rejected" =>
        \A other \in LpStatus \ {"Optimal", status} :
            FailureValue(other) # results

\* C4: Rejected is terminal: once the failure marker is returned the run
\* stays in Rejected, no field of it is read, and no error state is entered.
C4_RejectedTerminal ==
    results.kind = "failure" => pc = "Rejected"

\* C5: in every result the production values are integers that satisfy
\* every constraint: usage within each limit, tables >= 10, chairs >= 20.
C5_ResultFeasible ==
    HasResult =>
        /\ results.optimal_production.tables \in Int
        /\ results.optimal_production.chairs \in Int
        /\ \A r \in Resources :
              results.resource_usage[r] <= available_resources[r]
        /\ results.optimal_production.tables >= 10
        /\ results.optimal_production.chairs >= 20

\* C6: in every result the profit equals 220 * tables + 80 * chairs of the
\* reported production.
C6_ProfitConsistent ==
    HasResult =>
        results.optimal_profit =
            Scale * (220 * results.optimal_production.tables
                        + 80 * results.optimal_production.chairs)

Listed(b, r) == \E i \in 1 .. Len(b) : b[i] = r

\* C7: a resource is listed as binding exactly when its utilization is less
\* than 0.01 away from 100; a resource used up to its limit is listed, one
\* at exactly 99.99 or 100.01 is not, and none is listed twice.
C7_BindingIff ==
    uOut.error = "none" =>
        LET b == uOut.binding_constraints
            u == uOut.resource_utilization
        IN  /\ \A r \in Resources :
                  Listed(b, r) <=>
                      100 * Abs(u[r].num - 100 * u[r].den) < u[r].den
            /\ \A r \in Resources : uUsage[r] = uLimit[r] => Listed(b, r)
            /\ \A r \in Resources :
                  10000 * uUsage[r] \in {9999 * uLimit[r], 10001 * uLimit[r]}
                      => ~Listed(b, r)
            /\ \A i, j \in 1 .. Len(b) : b[i] = b[j] => i = j

C7_Witness ==
    /\ uOut.error = "none"
    /\ uUsage.labor_hours = uLimit.labor_hours
    /\ 10000 * uUsage.wood = 9999 * uLimit.wood
    /\ 10000 * uUsage.machine_time = 10001 * uLimit.machine_time
    /\ uOut.binding_constraints = <<"labor_hours">>

\* C8: in every result shadow_prices has exactly one entry per constraint of
\* the model, under the constraint's name, holding the dual the solver left
\* on it, an undefined dual included.
C8_ShadowPricesVerbatim ==
    HasResult =>
        /\ DOMAIN results.shadow_prices =
              {"Labor_Constraint", "Wood_Constraint",
               "Machine_Time_Constraint", "Minimum_Tables", "Minimum_Chairs"}
        /\ Cardinality(DOMAIN results.shadow_prices) = Len(ProbConstraints)
        /\ \A i \in 1 .. Len(ProbConstraints) :
              results.shadow_prices[ProbConstraints[i].name]
                  = pi[ProbConstraints[i].name]

C8_Witness ==
    /\ HasResult
    /\ pi["Wood_Constraint"] = Some(1)
    /\ pi["Minimum_Tables"] = None
    /\ results.shadow_prices["Minimum_Tables"] = None

\* C9: for every resource, the key of its utilization entry is the name its
\* constraint was given, the key of its shadow price.
C9_SameKey ==
    HasResult =>
        \A r \in DOMAIN results.resource_utilization :
            \E i \in 1 .. Len(ProbConstraints) :
                /\ ProbConstraints[i].resource = Some(r)
                /\ ProbConstraints[i].name = r
                /\ r \in DOMAIN results.shadow_prices

====
